---- MODULE Spec2Model ----
(***************************************************************************)
(* Model of main.py, a two-player Pong game: the Striker and Ball classes, *)
(* the start screen, the game-over screen and the main loop.               *)
(*                                                                         *)
(* Real arithmetic.  Ball.pos_y and Ball.y_fac are Python floats.  They    *)
(* are kept here as exact rationals over a fixed denominator: pos_y is     *)
(* stored as pos_y * Scale and y_fac as y_fac * (2 * Scale), with          *)
(* Scale = 25 ^ MaxHits.  Every paddle hit divides by 25 once, so all      *)
(* values stay exact for up to MaxHits hits between two Ball.reset calls   *)
(* (Ball.reset restores the integers 300 and +1/-1).  Ball.pos_x and       *)
(* Ball.x_fac only ever hold whole numbers (x_fac is +1/-1, speed is 4)    *)
(* and are stored unscaled.                                                *)
(***************************************************************************)
EXTENDS Integers, Sequences, FiniteSets, TLC

\* ------------------------------------------------------------------
\* Bounds of the model
\* ------------------------------------------------------------------
\* paddle hits allowed between two Ball.reset calls
MaxHits == 2
\* key events (KEYDOWN, KEYUP) handled by the main loop, per session
MaxKeyTicks == 1
\* key events arrive only in the first MaxKeyFrame frames of the main loop
MaxKeyFrame == 100
\* restarts chosen on the game-over screen, per session
MaxRestarts == 1
\* BallSpec: how far beyond a goal edge Ball.update is still called
MaxOutside == 12

\* ------------------------------------------------------------------
\* Program constants
\* ------------------------------------------------------------------
WIDTH == 900
HEIGHT == 600
WINNING_SCORE == 5
PaddleWidth == 10
PaddleHeight == 100
PaddleSpeed == 10
GreenX == 20
RedX == WIDTH - 30
BallRadius == 8
\* Ball.__init__: self.speed = speed * 0.5 with speed = 8
BallSpeed == 8 \div 2

Scale == 25 ^ MaxHits
FacUnit == 2 * Scale

Max(a, b) == IF a >= b THEN a ELSE b
Min(a, b) == IF a <= b THEN a ELSE b

\* Python int() on a rational n / d: truncation toward zero
Trunc(n, d) == IF n >= 0 THEN n \div d ELSE -((-n) \div d)

VARIABLES
    pc,            \* position of main(): start_screen, events, update, game_over_screen, done
    running,       \* main.running
    green_player,  \* Striker
    red_player,    \* Striker
    ball,          \* Ball
    green_score,
    red_score,
    green_y_fac,
    red_y_fac,
    point,         \* value of the last ball.update()
    winner,        \* argument of the last game_over_screen call
    hits,          \* Ball.hit calls since the last Ball.reset (or construction)
    resets,        \* Ball.reset calls since the last scoring signal
    keyTicks,      \* key events handled by the main loop so far
    frames,        \* frames of the main loop begun so far, counted up to MaxKeyFrame
    restarts,      \* restarts chosen so far
    serve,         \* x_fac the ball was last launched with (construction or Ball.reset)
    lastOp         \* the last step taken

vars == <<pc, running, green_player, red_player, ball, green_score, red_score,
          green_y_fac, red_y_fac, point, winner, hits, resets, keyTicks, frames, restarts, serve, lastOp>>

\* ------------------------------------------------------------------
\* Striker
\* ------------------------------------------------------------------
Striker(pos_x, pos_y, width, height, speed) ==
    [pos_x |-> pos_x, pos_y |-> pos_y, width |-> width, height |-> height,
     speed |-> speed]

\* StrikerUpdate without the clamp at the top edge
StrikerUpdateNoFloor(p, y_fac) ==
    [p EXCEPT !.pos_y = Min(p.pos_y + p.speed * y_fac, HEIGHT - p.height)]

StrikerUpdate(p, y_fac) ==
    [p EXCEPT !.pos_y = Max(0, Min(p.pos_y + p.speed * y_fac, HEIGHT - p.height))]

\* player_rect, rebuilt by every update from the current fields
StrikerGetRect(p) ==
    [left |-> p.pos_x, top |-> p.pos_y, w |-> p.width, h |-> p.height]

\* ------------------------------------------------------------------
\* Ball
\* ------------------------------------------------------------------
\* Ball constructed with the scoring latch already set
BallLatched(pos_x, pos_y, radius, speed) ==
    [pos_x |-> pos_x, pos_y |-> pos_y * Scale, radius |-> radius,
     speed |-> speed, x_fac |-> 1, y_fac |-> -FacUnit, first_time |-> FALSE]

Ball(pos_x, pos_y, radius, speed) ==
    [pos_x |-> pos_x, pos_y |-> pos_y * Scale, radius |-> radius,
     speed |-> speed, x_fac |-> 1, y_fac |-> -FacUnit, first_time |-> TRUE]

\* BallMove without the reflection at the walls
BallMoveNoReflect(b) ==
    [b EXCEPT !.pos_x = b.pos_x + b.speed * b.x_fac,
              !.pos_y = b.pos_y + (b.speed * b.y_fac) \div 2]

\* BallMove that reflects at the top wall only
BallMoveTopOnly(b) ==
    LET x == b.pos_x + b.speed * b.x_fac
        y == b.pos_y + (b.speed * b.y_fac) \div 2
        wall == y - b.radius * Scale <= 0
    IN  [b EXCEPT !.pos_x = x, !.pos_y = y,
                  !.y_fac = IF wall THEN -b.y_fac ELSE b.y_fac]

\* the ball after moving and reflecting, before score detection
BallMove(b) ==
    LET x == b.pos_x + b.speed * b.x_fac
        y == b.pos_y + (b.speed * b.y_fac) \div 2
        wall == \/ y - b.radius * Scale <= 0
                \/ y + b.radius * Scale >= HEIGHT * Scale
    IN  [b EXCEPT !.pos_x = x, !.pos_y = y,
                  !.y_fac = IF wall THEN -b.y_fac ELSE b.y_fac]

\* BallSignal that does not consult the latch
BallSignalNoLatch(b) ==
    LET m == BallMove(b)
    IN  IF m.pos_x - m.radius <= 0 THEN 1
        ELSE IF m.pos_x + m.radius >= WIDTH THEN -1
        ELSE 0

\* the value Ball.update returns
BallSignal(b) ==
    LET m == BallMove(b)
    IN  IF m.pos_x - m.radius <= 0 /\ m.first_time THEN 1
        ELSE IF m.pos_x + m.radius >= WIDTH /\ m.first_time THEN -1
        ELSE 0

\* the ball after Ball.update
BallUpdate(b) ==
    LET m == BallMove(b)
    IN  IF BallSignal(b) # 0 THEN [m EXCEPT !.first_time = FALSE] ELSE m

\* BallReset that keeps the sign of y_fac
BallResetKeepSign(b) ==
    [b EXCEPT !.pos_x = WIDTH \div 2,
              !.pos_y = (HEIGHT \div 2) * Scale,
              !.x_fac = -b.x_fac,
              !.y_fac = IF b.y_fac > 0 THEN FacUnit ELSE -FacUnit,
              !.first_time = TRUE]

\* BallReset that leaves the scoring latch as it is
BallResetKeepLatch(b) ==
    [b EXCEPT !.pos_x = WIDTH \div 2,
              !.pos_y = (HEIGHT \div 2) * Scale,
              !.x_fac = -b.x_fac,
              !.y_fac = IF b.y_fac > 0 THEN -FacUnit ELSE FacUnit]

BallReset(b) ==
    [b EXCEPT !.pos_x = WIDTH \div 2,
              !.pos_y = (HEIGHT \div 2) * Scale,
              !.x_fac = -b.x_fac,
              !.y_fac = IF b.y_fac > 0 THEN -FacUnit ELSE FacUnit,
              !.first_time = TRUE]

\* BallHit that sets y_fac but does not reverse x_fac
BallHitNoFlip(b, paddle) ==
    [b EXCEPT !.y_fac = (4 * (b.pos_y - paddle.pos_y * Scale)
                           - FacUnit * paddle.height) \div paddle.height]

\* offset = (pos_y - paddle.pos_y) / paddle.height - 0.5 ; y_fac = offset * 2
BallHit(b, paddle) ==
    [b EXCEPT !.y_fac = (4 * (b.pos_y - paddle.pos_y * Scale)
                           - FacUnit * paddle.height) \div paddle.height,
              !.x_fac = -b.x_fac]

BallGetRect(b) ==
    [left |-> b.pos_x - b.radius,
     top  |-> Trunc(b.pos_y, Scale) - b.radius,
     w    |-> 2 * b.radius,
     h    |-> 2 * b.radius]

\* pygame.Rect.colliderect: overlap of two rectangles, touching edges excluded
colliderect(a, r) ==
    /\ a.left < r.left + r.w
    /\ r.left < a.left + a.w
    /\ a.top < r.top + r.h
    /\ r.top < a.top + a.h

\* ------------------------------------------------------------------
\* main(): the collision loop over players = [green_player, red_player]
\* ------------------------------------------------------------------
Collides(b, p) == colliderect(BallGetRect(b), StrikerGetRect(p))

AfterCollisions(b, g, r) ==
    LET b1 == IF Collides(b, g) THEN BallHit(b, g) ELSE b
    IN  IF Collides(b1, r) THEN BallHit(b1, r) ELSE b1

NumCollisions(b, g, r) ==
    (IF Collides(b, g) THEN 1 ELSE 0) + (IF Collides(b, r) THEN 1 ELSE 0)

\* Frame with the collision loop placed after the updates
FrameCollideLast(b, g, r, gy, ry) ==
    LET g1 == StrikerUpdate(g, gy)
        r1 == StrikerUpdate(r, ry)
        b2 == BallUpdate(b)
    IN  [n     |-> NumCollisions(b2, g1, r1),
         green |-> g1,
         red   |-> r1,
         point |-> BallSignal(b),
         ball  |-> AfterCollisions(b2, g1, r1)]

\* main(): one frame from the collision loop to "point = ball.update()":
\* the collision loop runs first, on the positions the previous frame left,
\* then the two paddles and the ball are updated.  n is the number of
\* Ball.hit calls made.
Frame(b, g, r, gy, ry) ==
    LET b1 == AfterCollisions(b, g, r)
    IN  [n     |-> NumCollisions(b, g, r),
         green |-> StrikerUpdate(g, gy),
         red   |-> StrikerUpdate(r, ry),
         point |-> BallSignal(b1),
         ball  |-> BallUpdate(b1)]

\* ScoreLogic that credits nobody
ScoreLogicNone(pt, gs, rs) == [green |-> gs, red |-> rs]

\* ScoreLogic with the two sides exchanged
ScoreLogicSwapped(pt, gs, rs) ==
    [green |-> IF pt = 1 THEN gs + 1 ELSE gs,
     red   |-> IF pt = -1 THEN rs + 1 ELSE rs]

\* ScoreLogic that takes the point from the conceding side
ScoreLogicTransfer(pt, gs, rs) ==
    [green |-> IF pt = -1 THEN gs + 1 ELSE IF pt = 1 THEN gs - 1 ELSE gs,
     red   |-> IF pt = 1 THEN rs + 1 ELSE IF pt = -1 THEN rs - 1 ELSE rs]

\* main(): score logic, the counters after ball.update returned pt
ScoreLogic(pt, gs, rs) ==
    [green |-> IF pt = -1 THEN gs + 1 ELSE gs,
     red   |-> IF pt = 1 THEN rs + 1 ELSE rs]

\* AfterPoint that never resets the ball
AfterPointNoReset(b, pt) == [ball |-> b, calls |-> 0]

\* main(): "if point: wait(700); ball.reset()": the ball afterwards and the
\* number of Ball.reset calls made
AfterPoint(b, pt) ==
    [ball |-> IF pt # 0 THEN BallReset(b) ELSE b,
     calls |-> IF pt # 0 THEN 1 ELSE 0]

\* HasWinner with a strict comparison
HasWinnerStrict(gs, rs) == gs > WINNING_SCORE \/ rs > WINNING_SCORE

\* WinnerName testing the wrong counter's side
WinnerNameSwapped(gs, rs) == IF gs >= WINNING_SCORE THEN "Red Player" ELSE "Green Player"

\* main(): the win condition and the winner handed to game_over_screen
HasWinner(gs, rs) == gs >= WINNING_SCORE \/ rs >= WINNING_SCORE

WinnerName(gs, rs) == IF gs >= WINNING_SCORE THEN "Green Player" ELSE "Red Player"

\* draw_exit_button: a click on the Exit button clears running
draw_exit_button(run, clicked) == IF clicked THEN FALSE ELSE run

\* the key events the main loop reacts to: KEYDOWN of K_UP, K_DOWN, K_w, K_s,
\* KEYUP of K_UP or K_DOWN, KEYUP of K_w or K_s
KeyEvents == {"down_UP", "down_DOWN", "down_w", "down_s", "up_red", "up_green"}

\* red_y_fac and green_y_fac after the key event ev
RedIntent(ev, cur) ==
    IF ev = "down_UP" THEN -1
    ELSE IF ev = "down_DOWN" THEN 1
    ELSE IF ev = "up_red" THEN 0
    ELSE cur

GreenIntent(ev, cur) ==
    IF ev = "down_w" THEN -1
    ELSE IF ev = "down_s" THEN 1
    ELSE IF ev = "up_green" THEN 0
    ELSE cur

Init ==
    /\ pc = "start_screen"
    /\ running = TRUE
    /\ green_player = Striker(GreenX, HEIGHT \div 2 - 50, PaddleWidth, PaddleHeight, PaddleSpeed)
    /\ red_player = Striker(RedX, HEIGHT \div 2 - 50, PaddleWidth, PaddleHeight, PaddleSpeed)
    /\ ball = Ball(WIDTH \div 2, HEIGHT \div 2, BallRadius, BallSpeed)
    /\ green_score = 0
    /\ red_score = 0
    /\ green_y_fac = 0
    /\ red_y_fac = 0
    /\ point = 0
    /\ winner = "none"
    /\ hits = 0
    /\ resets = 0
    /\ keyTicks = 0
    /\ frames = 0
    /\ restarts = 0
    /\ serve = 1
    /\ lastOp = "init"

\* start_screen: a KEYDOWN event ends the wait
StartKey ==
    /\ pc = "start_screen"
    /\ pc' = "events"
    /\ lastOp' = "StartKey"
    /\ UNCHANGED <<running, green_player, red_player, ball, green_score, red_score,
                   green_y_fac, red_y_fac, point, winner, hits, resets, keyTicks, frames, restarts, serve>>

\* start_screen: a QUIT event calls exit()
StartQuit ==
    /\ pc = "start_screen"
    /\ pc' = "done"
    /\ lastOp' = "StartQuit"
    /\ UNCHANGED <<running, green_player, red_player, ball, green_score, red_score,
                   green_y_fac, red_y_fac, point, winner, hits, resets, keyTicks, frames, restarts, serve>>

\* main loop, event handling: the events of one frame are at most one key
\* event ev ("none": no key event) and possibly a QUIT event, which clears
\* running
Events(quit, ev) ==
    /\ pc = "events"
    /\ \/ ev = "none" /\ keyTicks' = keyTicks
       \/ ev \in KeyEvents
          /\ keyTicks < MaxKeyTicks /\ frames < MaxKeyFrame
          /\ keyTicks' = keyTicks + 1
    /\ frames' = Min(frames + 1, MaxKeyFrame)
    /\ running' = IF quit THEN FALSE ELSE running
    /\ green_y_fac' = GreenIntent(ev, green_y_fac)
    /\ red_y_fac' = RedIntent(ev, red_y_fac)
    /\ pc' = "update"
    /\ lastOp' = IF quit THEN "EventsQuit" ELSE "Events"
    /\ UNCHANGED <<green_player, red_player, ball, green_score, red_score,
                   point, winner, hits, resets, restarts, serve>>

\* main loop, the rest of the frame: collisions, updates, score logic,
\* win check, exit button
Update(clicked) ==
    /\ pc = "update"
    /\ \E fr \in {Frame(ball, green_player, red_player, green_y_fac, red_y_fac)} :
         /\ hits + fr.n <= MaxHits
         /\ \E sc \in {ScoreLogic(fr.point, green_score, red_score)},
               ap \in {AfterPoint(fr.ball, fr.point)} :
              /\ green_player' = fr.green
              /\ red_player' = fr.red
              /\ point' = fr.point
              /\ green_score' = sc.green
              /\ red_score' = sc.red
              /\ ball' = ap.ball
              /\ hits' = IF ap.calls > 0 THEN 0 ELSE hits + fr.n
              /\ resets' = IF fr.point # 0 THEN ap.calls ELSE resets + ap.calls
              /\ serve' = IF ap.calls > 0 THEN ap.ball.x_fac ELSE serve
              /\ IF HasWinner(sc.green, sc.red)
                 THEN /\ winner' = WinnerName(sc.green, sc.red)
                      /\ pc' = "game_over_screen"
                      /\ running' = running
                      /\ clicked = FALSE
                 ELSE /\ winner' = winner
                      /\ running' = draw_exit_button(running, clicked)
                      /\ pc' = IF running' THEN "events" ELSE "done"
    /\ lastOp' = "Update"
    /\ UNCHANGED <<green_y_fac, red_y_fac, keyTicks, frames, restarts>>

\* Restart that clears the scores but leaves the ball as it is
RestartNoReset ==
    /\ pc = "game_over_screen"
    /\ restarts < MaxRestarts
    /\ restarts' = restarts + 1
    /\ green_score' = 0
    /\ red_score' = 0
    /\ green_y_fac' = 0
    /\ red_y_fac' = 0
    /\ pc' = IF running THEN "events" ELSE "done"
    /\ lastOp' = "Restart"
    /\ UNCHANGED <<running, green_player, red_player, ball, hits, resets, point,
                   winner, keyTicks, frames, serve>>

\* game_over_screen returns True on K_r: scores cleared, ball reset, continue
Restart ==
    /\ pc = "game_over_screen"
    /\ restarts < MaxRestarts
    /\ restarts' = restarts + 1
    /\ green_score' = 0
    /\ red_score' = 0
    /\ ball' = BallReset(ball)
    /\ hits' = 0
    /\ resets' = resets + 1
    /\ serve' = BallReset(ball).x_fac
    /\ green_y_fac' = 0
    /\ red_y_fac' = 0
    /\ pc' = IF running THEN "events" ELSE "done"
    /\ lastOp' = "Restart"
    /\ UNCHANGED <<running, green_player, red_player, point, winner, keyTicks, frames>>

\* game_over_screen returns False on K_q: running cleared, the frame is
\* drawn and the loop ends
QuitChoice ==
    /\ pc = "game_over_screen"
    /\ running' = FALSE
    /\ pc' = "done"
    /\ lastOp' = "QuitChoice"
    /\ UNCHANGED <<green_player, red_player, ball, green_score, red_score,
                   green_y_fac, red_y_fac, point, winner, hits, resets, keyTicks, frames, restarts, serve>>

\* game_over_screen: a QUIT event calls exit()
GameOverQuit ==
    /\ pc = "game_over_screen"
    /\ pc' = "done"
    /\ lastOp' = "GameOverQuit"
    /\ UNCHANGED <<running, green_player, red_player, ball, green_score, red_score,
                   green_y_fac, red_y_fac, point, winner, hits, resets, keyTicks, frames, restarts, serve>>

\* game_over_screen: any other key is ignored and the wait goes on
OtherKey ==
    /\ pc = "game_over_screen"
    /\ pc' = pc
    /\ lastOp' = "OtherKey"
    /\ UNCHANGED <<running, green_player, red_player, ball, green_score, red_score,
                   green_y_fac, red_y_fac, point, winner, hits, resets, keyTicks, frames, restarts, serve>>

EventsStep == \E quit \in BOOLEAN, ev \in KeyEvents \cup {"none"} : Events(quit, ev)
UpdateStep == \E clicked \in BOOLEAN : Update(clicked)

Next ==
    \/ StartKey
    \/ StartQuit
    \/ EventsStep
    \/ UpdateStep
    \/ Restart
    \/ QuitChoice
    \/ GameOverQuit
    \/ OtherKey

Spec == Init /\ [][Next]_vars

\* the lifecycle states of the match
Intro == pc = "start_screen"
Playing == pc \in {"events", "update"}
MatchOver == pc = "game_over_screen"
Exited == pc = "done"

TypeOK ==
    /\ pc \in {"start_screen", "events", "update", "game_over_screen", "done", "ball_api"}
    /\ serve \in {-1, 1}
    /\ running \in BOOLEAN
    /\ green_score \in Nat
    /\ red_score \in Nat
    /\ hits \in 0..MaxHits
\* ------------------------------------------------------------------
\* BallSpec: the Ball class on its own.  A ball constructed as main()
\* constructs it receives update, reset and hit calls in any order; hit is
\* called, as in main(), with a paddle the ball overlaps.  The two paddles
\* rest at heights main() can bring them to.
\* ------------------------------------------------------------------
PaddleRests == {HEIGHT \div 2 - 200, HEIGHT \div 2 - 50, HEIGHT \div 2 + 100}

InitBall ==
    /\ pc = "ball_api"
    /\ running = TRUE
    /\ \E y \in PaddleRests :
          green_player = Striker(GreenX, y, PaddleWidth, PaddleHeight, PaddleSpeed)
    /\ \E y \in PaddleRests :
          red_player = Striker(RedX, y, PaddleWidth, PaddleHeight, PaddleSpeed)
    /\ ball = Ball(WIDTH \div 2, HEIGHT \div 2, BallRadius, BallSpeed)
    /\ green_score = 0
    /\ red_score = 0
    /\ green_y_fac = 0
    /\ red_y_fac = 0
    /\ point = 0
    /\ winner = "none"
    /\ hits = 0
    /\ resets = 0
    /\ keyTicks = 0
    /\ frames = 0
    /\ restarts = 0
    /\ serve = 1
    /\ lastOp = "init"

ApiUpdate ==
    /\ pc = "ball_api"
    /\ ball.pos_x >= -MaxOutside /\ ball.pos_x <= WIDTH + MaxOutside
    /\ point' = BallSignal(ball)
    /\ ball' = BallUpdate(ball)
    /\ lastOp' = "ApiUpdate"
    /\ UNCHANGED <<pc, running, green_player, red_player, green_score, red_score,
                   green_y_fac, red_y_fac, winner, hits, resets, keyTicks, frames, restarts, serve>>

ApiReset ==
    /\ pc = "ball_api"
    /\ ball' = BallReset(ball)
    /\ hits' = 0
    /\ serve' = BallReset(ball).x_fac
    /\ lastOp' = "ApiReset"
    /\ UNCHANGED <<pc, running, green_player, red_player, green_score, red_score,
                   green_y_fac, red_y_fac, point, winner, resets, keyTicks, frames, restarts>>

ApiHit(paddle) ==
    /\ pc = "ball_api"
    /\ Collides(ball, paddle)
    /\ hits < MaxHits
    /\ ball' = BallHit(ball, paddle)
    /\ hits' = hits + 1
    /\ lastOp' = "ApiHit"
    /\ UNCHANGED <<pc, running, green_player, red_player, green_score, red_score,
                   green_y_fac, red_y_fac, point, winner, resets, keyTicks, frames, restarts, serve>>

ApiHitStep == \E paddle \in {green_player, red_player} : ApiHit(paddle)

NextBall ==
    \/ ApiUpdate
    \/ ApiReset
    \/ ApiHitStep

BallSpec == InitBall /\ [][NextBall]_vars

\* ------------------------------------------------------------------
\* NeutralSpec: a session in which a key starts the match and then no key,
\* QUIT or mouse event arrives: both intents stay neutral.  The main loop
\* runs a frame per clock tick for as long as running holds, hence the weak
\* fairness on the steps.
\* ------------------------------------------------------------------
NeutralEvents == Events(FALSE, "none")

NeutralUpdate == Update(FALSE)

NextNeutral ==
    \/ StartKey
    \/ NeutralEvents
    \/ NeutralUpdate

NeutralSpec == Init /\ [][NextNeutral]_vars /\ WF_vars(NextNeutral)

\* ------------------------------------------------------------------
\* Properties
\* ------------------------------------------------------------------
BallAtCentre(b) ==
    /\ b.pos_x = WIDTH \div 2
    /\ b.pos_y = (HEIGHT \div 2) * Scale

\* C1: the session starts in Intro; a step taken in Intro updates no paddle
\* and no ball, checks no collision and changes no score; Intro is left for
\* Playing only by the start key, and then both scores are 0, the ball is at
\* the arena centre and the scoring latch is armed.
C1_IntroLifecycle ==
    /\ Intro
    /\ [][Intro =>
            /\ UNCHANGED <<green_player, red_player, ball, green_score,
                           red_score, point, hits>>
            /\ (lastOp' = "StartKey" =>
                   /\ Playing'
                   /\ green_score' = 0 /\ red_score' = 0
                   /\ BallAtCentre(ball') /\ ball'.first_time)
            /\ (Playing' => lastOp' = "StartKey")]_vars

C1_Witness == lastOp = "StartKey" /\ Playing /\ ball.first_time

\* C2: a step from Playing enters MatchOver exactly when the frame's
\* ball.update signalled a score that raised a counter from below the
\* threshold to the threshold, and the winner shown is that counter's side.
C2_MatchOverOnThreshold ==
    [][Playing =>
         /\ (MatchOver' <=>
                \/ point' = -1 /\ green_score < WINNING_SCORE
                               /\ green_score' = WINNING_SCORE
                \/ point' = 1 /\ red_score < WINNING_SCORE
                              /\ red_score' = WINNING_SCORE)
         /\ (MatchOver' /\ green_score' = WINNING_SCORE => winner' = "Green Player")
         /\ (MatchOver' /\ red_score' = WINNING_SCORE => winner' = "Red Player")]_vars

C2_Witness == MatchOver /\ lastOp = "Update" /\ winner = "Red Player" /\ red_score = WINNING_SCORE

\* C3: a restart chosen in MatchOver returns the match to Playing with both
\* scores 0, the ball at the arena centre and the scoring latch armed.
C3_RestartReturnsToPlaying ==
    [][MatchOver /\ lastOp' = "Restart" =>
         /\ Playing'
         /\ green_score' = 0 /\ red_score' = 0
         /\ BallAtCentre(ball') /\ ball'.first_time]_vars

\* C4: once a global quit signal has been received (running is cleared) no
\* paddle, ball or score changes any more and MatchOver is not entered.
C4_QuitEndsSession ==
    [][~running =>
         /\ UNCHANGED <<green_player, red_player, ball, green_score, red_score>>
         /\ (~MatchOver => ~MatchOver')]_vars

\* C5 as stated: the winning point skips the pause-then-reset path, so no
\* Ball.reset has run when MatchOver is entered and exactly one has run
\* after the restart.
C5_ResetOnceForWinningPoint ==
    /\ (MatchOver => resets = 0)
    /\ (lastOp = "Restart" => resets = 1)

\* C5 amended: the winning point runs the pause-then-reset path like any
\* other point before MatchOver is entered (one Ball.reset), and the restart
\* runs Ball.reset again: two Ball.reset calls for the winning point.
C5_ResetTwiceForWinningPoint ==
    /\ (MatchOver => resets = 1 /\ BallAtCentre(ball) /\ ball.first_time)
    /\ (lastOp = "Restart" => resets = 2)

C5_Witness == lastOp = "Restart" /\ Playing /\ resets = 2

\* C6 (BallSpec): an update that returns a scoring signal sets the latch;
\* while the latch is set every update returns the neutral signal and leaves
\* the latch set; the only call that clears a set latch is reset.
C6_OneSignalPerCrossing ==
    [][/\ (lastOp' = "ApiUpdate" /\ point' # 0 => ball.first_time /\ ~ball'.first_time)
       /\ (lastOp' = "ApiUpdate" /\ ~ball.first_time => point' = 0 /\ ~ball'.first_time)
       /\ (~ball.first_time /\ ball'.first_time => lastOp' = "ApiReset")]_vars

C6_Witness ==
    /\ lastOp = "ApiUpdate" /\ point = 0 /\ ~ball.first_time
    /\ ball.pos_x - ball.radius < -ball.speed

\* C7: in every frame, ball.update signals +1 exactly when the moved ball's
\* left edge is at or beyond x = 0 and -1 exactly when its right edge is at
\* or beyond x = WIDTH (and not +1); +1 adds 1 to the red counter only, -1
\* adds 1 to the green counter only, and 0 changes neither counter.
C7_OneCounterPerSignal ==
    [][pc = "update" =>
         LET m == BallMove(AfterCollisions(ball, green_player, red_player))
         IN  /\ (point' = 1 <=> m.pos_x - m.radius <= 0)
             /\ (point' = -1 <=> m.pos_x + m.radius >= WIDTH)
             /\ point' \in {-1, 0, 1}
             /\ (point' = 1 => red_score' = red_score + 1 /\ green_score' = green_score)
             /\ (point' = -1 => green_score' = green_score + 1 /\ red_score' = red_score)
             /\ (point' = 0 => green_score' = green_score /\ red_score' = red_score)]_vars

C7_Witness == lastOp = "Update" /\ point = 1 /\ red_score >= 2 /\ green_score >= 1

\* C8: both counters are never negative, and a step lowers a counter only
\* if it is the restart chosen in MatchOver, which sets both to 0.
C8_ScoresMonotone ==
    /\ [](green_score >= 0 /\ red_score >= 0)
    /\ [][\/ green_score' >= green_score /\ red_score' >= red_score
          \/ /\ MatchOver /\ lastOp' = "Restart"
             /\ green_score' = 0 /\ red_score' = 0]_vars

C8_Witness == lastOp = "Restart" /\ green_score = 0 /\ red_score = 0 /\ winner # "none"

\* C9: the two counters are never both at or above the threshold, and in
\* MatchOver exactly one counter equals the threshold while the other is
\* strictly below it.
C9_SingleWinner ==
    /\ ~(green_score >= WINNING_SCORE /\ red_score >= WINNING_SCORE)
    /\ (MatchOver =>
          \/ green_score = WINNING_SCORE /\ red_score < WINNING_SCORE
          \/ red_score = WINNING_SCORE /\ green_score < WINNING_SCORE)

C9_Witness == MatchOver /\ green_score = WINNING_SCORE /\ red_score = WINNING_SCORE - 1

\* C10: each paddle's y stays within 0 .. HEIGHT - height and its x stays
\* the x it was constructed with.
C10_PaddleInArena ==
    /\ green_player.pos_y >= 0 /\ green_player.pos_y <= HEIGHT - green_player.height
    /\ red_player.pos_y >= 0 /\ red_player.pos_y <= HEIGHT - red_player.height
    /\ green_player.pos_x = GreenX
    /\ red_player.pos_x = RedX

C10_Witness ==
    /\ lastOp = "Update"
    /\ \/ green_player.pos_y = 0 /\ green_y_fac = -1
       \/ red_player.pos_y = 0 /\ red_y_fac = -1
    /\ green_score + red_score >= 2

\* C11 as stated: the collision check of a frame sees the positions the
\* frame's paddle and ball updates produced, so in a frame without a point
\* the number of Ball.hit calls is the number of paddles the ball overlaps
\* at the end of the frame.
C11_CollisionAfterUpdates ==
    [][pc = "update" /\ point' = 0 =>
         hits' - hits = NumCollisions(ball', green_player', red_player')]_vars

\* C11 amended: the collision check of a frame runs before the frame's
\* paddle and ball updates, on the positions the previous frame left: in a
\* frame without a point the number of Ball.hit calls is the number of
\* paddles the ball overlaps at the start of the frame, and a single hit
\* inverts x_fac.
C11_CollisionBeforeUpdates ==
    [][pc = "update" /\ point' = 0 =>
         /\ hits' - hits = NumCollisions(ball, green_player, red_player)
         /\ (NumCollisions(ball, green_player, red_player) = 1 =>
                ball'.x_fac = -ball.x_fac)
         /\ (NumCollisions(ball, green_player, red_player) = 0 =>
                ball'.x_fac = ball.x_fac)]_vars

C11_Witness ==
    /\ lastOp = "Update" /\ point = 0 /\ hits = 1
    /\ NumCollisions(ball, green_player, red_player) = 0

\* C12 as stated (BallSpec): Ball.reset leaves y_fac with magnitude 1 and
\* the sign it had before: positive becomes +1, negative becomes -1.
C12_ResetKeepsSign ==
    [][lastOp' = "ApiReset" =>
         /\ (ball.y_fac > 0 => ball'.y_fac = FacUnit)
         /\ (ball.y_fac < 0 => ball'.y_fac = -FacUnit)]_vars

\* C12 amended (BallSpec): Ball.reset leaves y_fac with magnitude 1 and the
\* opposite sign: positive becomes -1, negative or zero becomes +1.
C12_ResetInvertsSign ==
    [][lastOp' = "ApiReset" =>
         /\ (ball.y_fac > 0 => ball'.y_fac = -FacUnit)
         /\ (ball.y_fac <= 0 => ball'.y_fac = FacUnit)]_vars

C12_Witness == lastOp = "ApiReset" /\ ball.y_fac = -FacUnit /\ ball.x_fac = 1

\* the ball's top and bottom edges are strictly inside the arena
EdgeInside(b) ==
    /\ b.pos_y - b.radius * Scale > 0
    /\ b.pos_y + b.radius * Scale < HEIGHT * Scale

\* C16 (BallSpec): an update that takes the ball's vertical edge from
\* strictly inside the arena onto or across the top or bottom boundary
\* negates y_fac once; an update that leaves the edge strictly inside does
\* not change y_fac.
C16_WallFlipsOnce ==
    [][lastOp' = "ApiUpdate" =>
         /\ (EdgeInside(ball) /\ ~EdgeInside(ball') => ball'.y_fac = -ball.y_fac)
         /\ (EdgeInside(ball') => ball'.y_fac = ball.y_fac)]_vars

C16_Witness ==
    /\ lastOp = "ApiUpdate"
    /\ ball.pos_y + ball.radius * Scale >= HEIGHT * Scale
    /\ ball.y_fac < 0

\* C17 (BallSpec): every Ball.reset call, whatever the ball's state and
\* whatever call came before it, leaves the ball at the arena centre with
\* the scoring latch armed.
C17_ResetRecentres ==
    [][lastOp' = "ApiReset" => BallAtCentre(ball') /\ ball'.first_time]_vars

C17_Witness ==
    /\ lastOp = "ApiReset" /\ point # 0
    /\ BallAtCentre(ball) /\ ball.first_time

\* C13 as stated: the reset that follows a point launches the ball in the
\* direction opposite to the previous serve, whatever paddle hits the rally
\* had.
C13_ServeAlternates ==
    [][pc = "update" /\ point' # 0 => ball'.x_fac = -serve]_vars

\* C13 amended: the reset that follows a point launches the ball toward the
\* side that just scored (rightward after a crossing of the left edge,
\* leftward after a crossing of the right edge); that is the direction
\* opposite to the previous serve exactly when the rally had an even number
\* of paddle hits.
C13_ServeTowardScorer ==
    [][pc = "update" /\ point' # 0 =>
         /\ ball'.x_fac = point'
         /\ serve' = ball'.x_fac
         /\ (ball'.x_fac = -serve <=>
                (hits + NumCollisions(ball, green_player, red_player)) % 2 = 0)]_vars

C13_Witness ==
    /\ lastOp = "Update" /\ point = 1 /\ serve = 1
    /\ red_score = 1 /\ green_score = 0 /\ restarts = 0

\* C14: a frame whose collision loop hits the ball with the left paddle
\* (and not the right one) leaves the ball travelling rightward, and a frame
\* that hits it with the right paddle (and not the left one) leaves it
\* travelling leftward, also when the ball overlapped the same paddle in the
\* frame before.
C14_HitSendsBallBack ==
    [][pc = "update" /\ point' = 0 =>
         /\ (Collides(ball, green_player) /\ ~Collides(ball, red_player)
                => ball'.x_fac > 0)
         /\ (Collides(ball, red_player) /\ ~Collides(ball, green_player)
                => ball'.x_fac < 0)]_vars

\* the ball's centre is within [radius, HEIGHT - radius], and a ball whose
\* edge is on or beyond a wall moves away from that wall
InEnvelope(b) ==
    /\ b.pos_y >= b.radius * Scale
    /\ b.pos_y <= (HEIGHT - b.radius) * Scale
    /\ (b.pos_y - b.radius * Scale <= 0 => b.y_fac > 0)
    /\ (b.pos_y + b.radius * Scale >= HEIGHT * Scale => b.y_fac < 0)

\* C15 as stated: in every Playing state the ball's centre y is within
\* [8, 592] and a ball touching a wall has been turned away from it.
C15_BallInEnvelope == Playing => InEnvelope(ball)

\* C15 amended: the same, in the Playing states of a rally in which no
\* paddle has hit the ball yet.
C15_BallInEnvelopeBeforeHit == Playing /\ hits = 0 => InEnvelope(ball)

C15_Witness ==
    /\ Playing /\ hits = 0
    /\ ball.pos_y = ball.radius * Scale /\ ball.y_fac > 0

\* C18: a step taken in MatchOver is a restart, which returns to Playing,
\* or the quit choice or a global quit, which end the session, or another
\* key, which leaves the lifecycle state, the scores, the paddles and the
\* ball as they are; once the quit choice is taken nothing changes any more.
C18_MatchOverInputs ==
    [][/\ (MatchOver =>
            \/ lastOp' = "Restart" /\ Playing'
            \/ /\ lastOp' \in {"QuitChoice", "GameOverQuit"}
               /\ Exited'
               /\ UNCHANGED <<green_player, red_player, ball, green_score, red_score>>
            \/ /\ lastOp' = "OtherKey"
               /\ MatchOver'
               /\ UNCHANGED <<green_player, red_player, ball, green_score, red_score>>)
       /\ (lastOp = "QuitChoice" => FALSE)]_vars

\* C19: at the start of every Playing frame, and between its event handling
\* and its updates, the scoring latch is armed and both counters are below
\* the winning threshold.
C19_FrameStartsArmed ==
    Playing =>
       /\ ball.first_time
       /\ green_score < WINNING_SCORE
       /\ red_score < WINNING_SCORE

C19_Witness ==
    /\ pc = "events" /\ lastOp = "Update" /\ point # 0
    /\ green_score = WINNING_SCORE - 1 /\ red_score = WINNING_SCORE - 1

\* C20 (NeutralSpec): with both intents neutral in every frame and no quit
\* signal, the match reaches MatchOver.
C20_MatchEnds == <>MatchOver

C20_Witness ==
    /\ MatchOver /\ keyTicks = 0 /\ hits = 0
    /\ green_y_fac = 0 /\ red_y_fac = 0
    /\ green_score + red_score = 2 * WINNING_SCORE - 1
====
